---------------------------- MODULE Spec2Model ----------------------------
(***************************************************************************)
(* Model of the constrained file store of go-share (package storage):      *)
(* the directory type with its Add / List / Remove / Serve operations, the *)
(* conditional removal routine remove, the lazily rebuilt listing cache    *)
(* and the one-shot expiration callbacks armed by Add.                     *)
(*                                                                         *)
(* Every request runs in its own goroutine; the model has NumProcs request *)
(* threads and one callback thread per record (Add arms at most one        *)
(* time.AfterFunc per record it registers).  A step of the model is the    *)
(* code between two points where a goroutine can block (a Lock/RLock) or   *)
(* where it holds a lock across a long operation (the content transfer).   *)
(***************************************************************************)
EXTENDS Integers, Sequences, FiniteSets

(* ------------------------------ bounds -------------------------------- *)
NumProcs == 2          \* concurrent request goroutines
MaxRecs == 2           \* successful Adds (records ever allocated)
MaxTime == 3           \* last instant of the wall clock
MaxDownloads == 2      \* largest download limit an Add asks for
StartTime == 2         \* the wall clock when the store is created
MaxOps == 5            \* calls ever begun, an Add counting twice

(* --------------------------- program constants ------------------------ *)
Exhausted == -1        \* Downloads sentinel: last download was served
Unlimited == 0         \* Downloads = 0: no download limit
ZeroTime == 0          \* the zero time.Time: never expires
Slash == 0             \* the character '/' in a name

(* Names are strings: sequences of characters (small integers).           *)
ValidNames == {<<1>>, <<1, 1>>}
BadNames == {<< >>, <<1, Slash, 1>>}

Procs == 1..NumProcs
RecIds == 1..MaxRecs
NoRec == 0
TimerOf(r) == NumProcs + r
Timers == {TimerOf(r) : r \in RecIds}
Threads == Procs \cup Timers

(* Disk content: the bytes an Add uploads are identified by the record id  *)
(* of that Add; NoFile: no such file; Partial: truncated or incomplete.    *)
NoFile == 0
Partial == -1

VARIABLES
  files,      \* directory.files: name -> record id (NoRec: not in the map)
  recs,       \* the heap of Constraints records, by record id
  recLock,    \* the RWMutex embedded in each Constraints
  nextRec,    \* next record id to allocate
  disk,       \* the backing directory: name -> content
  storeLock,  \* directory.RWMutex
  listLock,   \* list.RWMutex
  dirty,      \* list.dirty
  slice,      \* list.slice
  now,        \* the wall clock, time.Now()
  pc,         \* per thread: where it is in its call
  loc,        \* per thread: the locals of its call
  ops,        \* calls begun so far, an Add counting twice
  last,       \* history: the call that returned last, and what it returned
  lastRec,    \* history: name -> record id of the last successful Add
  calls       \* history: name -> Serve calls returned since that Add

vars == <<files, recs, recLock, nextRec, disk, storeLock, listLock, dirty,
          slice, now, pc, loc, ops, last, lastRec, calls>>

(* ------------------------------ RWMutex ------------------------------- *)
(* w: the thread holding the write lock (0: none); r: read locks held.    *)
Unlocked == [w |-> 0, r |-> 0]
CanRLock(l) == l.w = 0
\* a write lock that does not wait for the readers
CanLockDespiteReaders(l) == l.w = 0
CanLock(l) == l.w = 0 /\ l.r = 0
RLock(l) == [l EXCEPT !.r = @ + 1]
RUnlock(l) == [l EXCEPT !.r = @ - 1]
Lock(l, t) == [l EXCEPT !.w = t]
Unlock(l) == [l EXCEPT !.w = 0]

(* ---------------------------- Constraints ----------------------------- *)
(* limit, served and past are history: the Downloads the record was added *)
(* with, the Serve calls that transferred its file, and whether Expire    *)
(* was already over when Add registered it.                               *)
NoConstraints ==
  [name |-> << >>, Expire |-> ZeroTime, Downloads |-> Unlimited,
   Public |-> FALSE, Delete |-> FALSE, limit |-> 0, served |-> 0,
   past |-> FALSE]

\* expired with the comparison turned round (After for Before)
ExpiredAfter(c) == c.Expire # ZeroTime /\ c.Expire > now

\* func (c *Constraints) expired() bool
expired(c) == c.Expire # ZeroTime /\ c.Expire < now

\* Add's check path.Base(name) != name, for the names of the model
InvalidAddName(n) == n = << >> \/ \E i \in 1..Len(n) : n[i] = Slash

\* Serve's check strings.Contains(name, "/") || name == ""
InvalidServeName(n) == (\E i \in 1..Len(n) : n[i] = Slash) \/ n = << >>

(* The Constraints values a caller passes to Add.  An Expire before       *)
(* MaxTime is over at some instant of the clock; one that is over when    *)
(* Add is called comes from an Add called after the clock has advanced.   *)
ConstraintChoices ==
  [Expire : {ZeroTime} \cup StartTime..(MaxTime - 1),
   Downloads : 0..MaxDownloads,
   Public : BOOLEAN, Delete : BOOLEAN]

(* --------------------------- sort.Strings ----------------------------- *)
RECURSIVE LexLess(_, _)
LexLess(a, b) ==
  IF a = << >> THEN b # << >>
  ELSE IF b = << >> THEN FALSE
  ELSE IF Head(a) # Head(b) THEN Head(a) < Head(b)
  ELSE LexLess(Tail(a), Tail(b))

RECURSIVE SortStrings(_)
SortStrings(S) ==
  IF S = {} THEN << >>
  ELSE LET m == CHOOSE x \in S : \A y \in S \ {x} : LexLess(x, y)
       IN <<m>> \o SortStrings(S \ {m})

\* the names the rebuild loop of List appends: those whose record is Public
PublicNames(f, rs) == {n \in ValidNames : f[n] # NoRec /\ rs[f[n]].Public}

(* ------------------------- locals and history ------------------------- *)
(* name, rec, deferred, got: the locals of the code.  start: lastRec of   *)
(* the name when a Serve began.  stable: the public names that have been  *)
(* registered, with the same record, ever since a List began.             *)
NoLocals ==
  [name |-> << >>, rec |-> NoRec, deferred |-> FALSE, got |-> NoFile,
   start |-> NoRec, stable |-> {}]

NoCall ==
  [op |-> "none", name |-> << >>, res |-> "none", got |-> NoFile,
   list |-> << >>, rec |-> NoRec, start |-> NoRec, stable |-> {},
   removed |-> "none"]

\* a call begins: List, Remove and Serve count once against MaxOps
Begin(p) == pc[p] = "idle" /\ ops + 1 <= MaxOps /\ ops' = ops + 1

\* an Add begins: it counts twice against MaxOps (it opens and it copies)
BeginAdd(p) == pc[p] = "idle" /\ ops + 2 <= MaxOps /\ ops' = ops + 2

\* History: the record of the call that returned is kept for the one state
\* that follows its return, and cleared before any other step.
Cleared == last = NoCall

Forget ==
  /\ ~Cleared
  /\ last' = NoCall
  /\ UNCHANGED <<files, recs, recLock, nextRec, disk, storeLock, listLock,
                 dirty, slice, now, pc, loc, ops, lastRec, calls>>

\* the locals after a step that changes the record of name n
Drop(l, n) == [l EXCEPT !.stable = @ \ {n}]

\* one more Serve of n returned; another operation on n came in between
Returned(n) == [calls EXCEPT ![n] = IF @ < MaxOps THEN @ + 1 ELSE @]
Disturbed(n) == [calls EXCEPT ![n] = MaxOps]

(* ------------------------------- Init --------------------------------- *)
Init ==
  /\ files = [n \in ValidNames |-> NoRec]
  /\ recs = [r \in RecIds |-> NoConstraints]
  /\ recLock = [r \in RecIds |-> Unlocked]
  /\ nextRec = 1
  /\ disk = [n \in ValidNames |-> NoFile]
  /\ storeLock = Unlocked
  /\ listLock = Unlocked
  /\ dirty = FALSE
  /\ slice = << >>
  /\ now = StartTime
  /\ pc = [t \in Threads |-> IF t \in Procs THEN "idle" ELSE "unarmed"]
  /\ loc = [t \in Threads |-> NoLocals]
  /\ ops = 0
  /\ last = NoCall
  /\ lastRec = [n \in ValidNames |-> NoRec]
  /\ calls = [n \in ValidNames |-> 0]

(* ------------------------------- Add ---------------------------------- *)
\* Add, lines 141-143: the name is rejected before any lock is taken
AddInvalid(p, n) ==
  /\ Cleared
  /\ BeginAdd(p)
  /\ InvalidAddName(n)
  /\ last' = [NoCall EXCEPT !.op = "Add", !.name = n, !.res = "InvalidName"]
  /\ UNCHANGED <<files, recs, recLock, nextRec, disk, storeLock, listLock,
                 dirty, slice, now, pc, loc, lastRec, calls>>

\* os.OpenFile with O_EXCL whatever the map holds
OpenFailsExclusive(n, ioerr) == disk[n] # NoFile \/ ioerr

\* os.OpenFile with O_CREATE|O_TRUNC|O_WRONLY, and O_EXCL when the name is
\* not in the map: fails on an existing file under O_EXCL
OpenFails(n, ioerr) == (files[n] = NoRec /\ disk[n] # NoFile) \/ ioerr

\* the error os.OpenFile returns: the file exists (O_EXCL), or another one
OpenError(ioerr) == IF ioerr THEN "IOFailure" ELSE "Exists"

\* Add, lines 144-155: d.Lock(), the flags, os.OpenFile
AddOpen(p, n, ioerr) ==
  /\ Cleared
  /\ BeginAdd(p)
  /\ ~InvalidAddName(n)
  /\ nextRec <= MaxRecs
  /\ CanLock(storeLock)
  /\ IF OpenFails(n, ioerr)
     THEN /\ last' = [NoCall EXCEPT !.op = "Add", !.name = n,
                                    !.res = OpenError(ioerr)]
          /\ calls' = Disturbed(n)
          /\ UNCHANGED <<disk, storeLock, pc, loc>>
     ELSE /\ disk' = [disk EXCEPT ![n] = Partial]
          /\ storeLock' = Lock(storeLock, p)
          /\ pc' = [pc EXCEPT ![p] = "add_copy"]
          /\ loc' = [loc EXCEPT ![p].name = n]
          /\ UNCHANGED <<last, calls>>
  /\ UNCHANGED <<files, recs, recLock, nextRec, listLock, dirty, slice, now,
                 lastRec>>

\* Add that forgets to mark the list dirty
AddDirtyNever(c, d) == d

\* Add, lines 161-163: the dirty flag after the record is registered
AddDirty(c, d) == IF c.Public THEN TRUE ELSE d

\* Add, lines 164-166: time.AfterFunc is called for a non-zero Expire
Arms(c) == c.Expire # ZeroTime

\* Add that marks the list dirty before it copies the content
AddCopyDirtyFirst(p, c, ioerr) ==
  /\ Cleared
  /\ pc[p] = "add_copy"
  /\ storeLock' = Unlock(storeLock)
  /\ dirty' = AddDirty(c, dirty)
  /\ IF ioerr
     THEN /\ last' = [NoCall EXCEPT !.op = "Add", !.name = loc[p].name,
                                    !.res = "IOFailure"]
          /\ calls' = Disturbed(loc[p].name)
          /\ pc' = [pc EXCEPT ![p] = "idle"]
          /\ loc' = [loc EXCEPT ![p] = NoLocals]
          /\ UNCHANGED <<files, recs, nextRec, disk, lastRec>>
     ELSE /\ disk' = [disk EXCEPT ![loc[p].name] = nextRec]
          /\ recs' = [recs EXCEPT ![nextRec] =
                        [name |-> loc[p].name, Expire |-> c.Expire,
                         Downloads |-> c.Downloads, Public |-> c.Public,
                         Delete |-> c.Delete, limit |-> c.Downloads,
                         served |-> 0,
                         past |-> c.Expire # ZeroTime /\ c.Expire < now]]
          /\ files' = [files EXCEPT ![loc[p].name] = nextRec]
          /\ nextRec' = nextRec + 1
          /\ pc' = [pc EXCEPT ![p] = "idle",
                              ![TimerOf(nextRec)] =
                                  IF Arms(c) THEN "armed" ELSE @]
          /\ loc' = [q \in Threads |->
                       IF q = p THEN NoLocals ELSE Drop(loc[q], loc[p].name)]
          /\ last' = [NoCall EXCEPT !.op = "Add", !.name = loc[p].name,
                                    !.res = "OK", !.rec = nextRec]
          /\ lastRec' = [lastRec EXCEPT ![loc[p].name] = nextRec]
          /\ calls' = [calls EXCEPT ![loc[p].name] = 0]
  /\ UNCHANGED <<recLock, listLock, slice, now, ops>>

\* Add, lines 156-167: io.Copy, register the record, mark the list dirty,
\* arm the expiration callback, d.Unlock().  The Constraints argument is
\* first read here, so the model draws it here.
AddCopy(p, c, ioerr) ==
  /\ Cleared
  /\ pc[p] = "add_copy"
  /\ storeLock' = Unlock(storeLock)
  /\ IF ioerr
     THEN /\ last' = [NoCall EXCEPT !.op = "Add", !.name = loc[p].name,
                                    !.res = "IOFailure"]
          /\ calls' = Disturbed(loc[p].name)
          /\ pc' = [pc EXCEPT ![p] = "idle"]
          /\ loc' = [loc EXCEPT ![p] = NoLocals]
          /\ UNCHANGED <<files, recs, nextRec, disk, dirty, lastRec>>
     ELSE /\ disk' = [disk EXCEPT ![loc[p].name] = nextRec]
          /\ recs' = [recs EXCEPT ![nextRec] =
                        [name |-> loc[p].name, Expire |-> c.Expire,
                         Downloads |-> c.Downloads, Public |-> c.Public,
                         Delete |-> c.Delete, limit |-> c.Downloads,
                         served |-> 0,
                         past |-> c.Expire # ZeroTime /\ c.Expire < now]]
          /\ files' = [files EXCEPT ![loc[p].name] = nextRec]
          /\ nextRec' = nextRec + 1
          /\ dirty' = AddDirty(c, dirty)
          /\ pc' = [pc EXCEPT ![p] = "idle",
                              ![TimerOf(nextRec)] =
                                  IF Arms(c) THEN "armed" ELSE @]
          /\ loc' = [q \in Threads |->
                       IF q = p THEN NoLocals ELSE Drop(loc[q], loc[p].name)]
          /\ last' = [NoCall EXCEPT !.op = "Add", !.name = loc[p].name,
                                    !.res = "OK", !.rec = nextRec]
          /\ lastRec' = [lastRec EXCEPT ![loc[p].name] = nextRec]
          /\ calls' = [calls EXCEPT ![loc[p].name] = 0]
  /\ UNCHANGED <<recLock, listLock, slice, now, ops>>

(* ------------------------------ Remove -------------------------------- *)
\* Remove that marks the list dirty whatever it removes
RemoveDirtyAlways(n, d) == TRUE

\* Remove, lines 199-201: the dirty flag when the removed record is public
RemoveDirty(n, d) ==
  IF files[n] # NoRec /\ recs[files[n]].Public THEN TRUE ELSE d

\* Remove, lines 196-203: the unconditional removal
Remove(p, n) ==
  /\ Cleared
  /\ Begin(p)
  /\ CanLock(storeLock)
  /\ dirty' = RemoveDirty(n, dirty)
  /\ files' = [files EXCEPT ![n] = NoRec]
  /\ loc' = [q \in Threads |-> Drop(loc[q], n)]
  /\ last' = [NoCall EXCEPT !.op = "Remove", !.name = n, !.res = "OK",
                            !.rec = files[n]]
  /\ calls' = Disturbed(n)
  /\ UNCHANGED <<recs, recLock, nextRec, disk, storeLock, listLock, slice,
                 now, pc, lastRec>>

(* ------------------------------- Serve -------------------------------- *)
\* Serve, lines 236-238
ServeInvalid(p, n) ==
  /\ Cleared
  /\ Begin(p)
  /\ InvalidServeName(n)
  /\ last' = [NoCall EXCEPT !.op = "Serve", !.name = n, !.res = "InvalidName"]
  /\ UNCHANGED <<files, recs, recLock, nextRec, disk, storeLock, listLock,
                 dirty, slice, now, pc, loc, lastRec, calls>>

\* Serve returns res; g is the content it transferred
ServeReturns(p, res, g) ==
  /\ last' = [NoCall EXCEPT !.op = "Serve", !.name = loc[p].name,
                            !.res = res, !.got = g, !.rec = loc[p].rec,
                            !.start = loc[p].start]
  /\ calls' = Returned(loc[p].name)
  /\ pc' = [pc EXCEPT ![p] = "idle"]
  /\ loc' = [loc EXCEPT ![p] = NoLocals]

\* Serve, lines 239-244: the lookup under d.RLock()
ServeLookup(p, n) ==
  /\ Cleared
  /\ Begin(p)
  /\ ~InvalidServeName(n)
  /\ CanRLock(storeLock)
  /\ IF files[n] = NoRec
     THEN /\ last' = [NoCall EXCEPT !.op = "Serve", !.name = n,
                                    !.res = "NotFound", !.start = lastRec[n]]
          /\ calls' = Returned(n)
          /\ UNCHANGED <<pc, loc>>
     ELSE /\ pc' = [pc EXCEPT ![p] = "serve_rlock"]
          /\ loc' = [loc EXCEPT ![p] = [NoLocals EXCEPT !.name = n,
                                          !.rec = files[n],
                                          !.start = lastRec[n]]]
          /\ UNCHANGED <<last, calls>>
  /\ UNCHANGED <<files, recs, recLock, nextRec, disk, storeLock, listLock,
                 dirty, slice, now, lastRec>>

\* Serve that takes the counting path for every record
MustCountAlways(c) == TRUE

\* Serve that takes the counting path unless Downloads is negative
MustCountNonNegative(c) == c.Downloads >= 0

\* Serve, line 249: does the counter have to be modified
MustCount(c) == c.Downloads > 0

\* Serve, lines 245-251: constraints.RLock(), the expiry check (which
\* returns with the read lock still held), the test of Downloads, and the
\* RUnlock() before the write lock is requested
ServeRLock(p) ==
  /\ Cleared
  /\ pc[p] = "serve_rlock"
  /\ CanRLock(recLock[loc[p].rec])
  /\ IF expired(recs[loc[p].rec])
     THEN /\ recLock' = [recLock EXCEPT ![loc[p].rec] = RLock(@)]
          /\ ServeReturns(p, "Expired", NoFile)
     ELSE IF MustCount(recs[loc[p].rec])
     THEN /\ pc' = [pc EXCEPT ![p] = "serve_lock"]
          /\ UNCHANGED <<recLock, loc, last, calls>>
     ELSE /\ recLock' = [recLock EXCEPT ![loc[p].rec] = RLock(@)]
          /\ pc' = [pc EXCEPT ![p] = "serve_file_r"]
          /\ UNCHANGED <<loc, last, calls>>
  /\ UNCHANGED <<files, recs, nextRec, disk, storeLock, listLock, dirty,
                 slice, now, ops, lastRec>>

\* Serve, lines 251-261: constraints.Lock() and the switch on Downloads
ServeLock(p) ==
  /\ Cleared
  /\ pc[p] = "serve_lock"
  /\ CanLock(recLock[loc[p].rec])
  /\ IF recs[loc[p].rec].Downloads = 1
     THEN /\ recs' = [recs EXCEPT ![loc[p].rec].Downloads = Exhausted]
          /\ loc' = [loc EXCEPT ![p].deferred = TRUE]
          /\ recLock' = [recLock EXCEPT ![loc[p].rec] = Lock(@, p)]
          /\ pc' = [pc EXCEPT ![p] = "serve_file_w"]
          /\ UNCHANGED <<last, calls>>
     ELSE IF recs[loc[p].rec].Downloads = Exhausted
     THEN /\ ServeReturns(p, "LimitExceeded", NoFile)
          /\ UNCHANGED <<recs, recLock>>
     ELSE /\ recs' = [recs EXCEPT ![loc[p].rec].Downloads = @ - 1]
          /\ recLock' = [recLock EXCEPT ![loc[p].rec] = Lock(@, p)]
          /\ pc' = [pc EXCEPT ![p] = "serve_file_w"]
          /\ UNCHANGED <<loc, last, calls>>
  /\ UNCHANGED <<files, nextRec, disk, storeLock, listLock, dirty, slice,
                 now, ops, lastRec>>

\* Serve, lines 262-264 and 266-268: http.ServeFile under the record's
\* lock, then the unlock; a deferred d.remove(name) runs before Serve
\* returns nil
ServeFile(p) ==
  /\ Cleared
  /\ pc[p] \in {"serve_file_r", "serve_file_w"}
  /\ recs' = [recs EXCEPT ![loc[p].rec].served = @ + 1]
  /\ recLock' = [recLock EXCEPT ![loc[p].rec] =
                   IF pc[p] = "serve_file_r" THEN RUnlock(@) ELSE Unlock(@)]
  /\ IF loc[p].deferred
     THEN /\ pc' = [pc EXCEPT ![p] = "remove_lock"]
          /\ loc' = [loc EXCEPT ![p].got = disk[loc[p].name]]
          /\ UNCHANGED <<last, calls>>
     ELSE ServeReturns(p, "OK", disk[loc[p].name])
  /\ UNCHANGED <<files, nextRec, disk, storeLock, listLock, dirty, slice,
                 now, ops, lastRec>>

(* ------------------------ conditional removal ------------------------- *)
\* the name a call of remove is about: Serve's, or the one the callback
\* of the record's Add closed over
RemoveName(t) == IF t \in Procs THEN loc[t].name ELSE recs[t - NumProcs].name

\* The callback of time.AfterFunc(c.Expire.Sub(time.Now()), ...) runs once
\* the duration has elapsed; the clock it then reads is past Expire.
Due(t) == t \in Timers /\ pc[t] = "armed" /\ recs[t - NumProcs].Expire < now

\* a call of remove ends, having logged how; Serve then returns nil
EndRemove(t, r, how) ==
  /\ pc' = [pc EXCEPT ![t] = IF t \in Procs THEN "idle" ELSE "fired"]
  /\ last' = IF t \in Procs
             THEN [NoCall EXCEPT !.op = "Serve", !.name = loc[t].name,
                     !.res = "OK", !.got = loc[t].got, !.rec = loc[t].rec,
                     !.start = loc[t].start, !.removed = how]
             ELSE [NoCall EXCEPT !.op = "remove", !.name = RemoveName(t),
                     !.rec = r, !.start = t - NumProcs, !.removed = how]
  /\ calls' = IF t \in Procs THEN Returned(loc[t].name) ELSE calls

\* remove, lines 172-178: d.Lock() and the lookup
RemoveLock(t) ==
  /\ Cleared
  /\ pc[t] = "remove_lock" \/ Due(t)
  /\ CanLock(storeLock)
  /\ IF files[RemoveName(t)] = NoRec
     THEN /\ EndRemove(t, NoRec, "already")
          /\ loc' = [loc EXCEPT ![t] = NoLocals]
          /\ UNCHANGED storeLock
     ELSE /\ storeLock' = Lock(storeLock, t)
          /\ loc' = [loc EXCEPT ![t].rec = IF t \in Procs THEN @
                                           ELSE files[RemoveName(t)]]
          /\ pc' = [pc EXCEPT ![t] = "remove_check"]
          /\ UNCHANGED <<last, calls>>
  /\ UNCHANGED <<files, recs, recLock, nextRec, disk, listLock, dirty, slice,
                 now, ops, lastRec>>

\* remove without its test: every record found is removed
ShouldRemoveAlways(c) == TRUE

\* remove that never finds a reason to remove
ShouldRemoveNever(c) == FALSE

\* remove that tests the expiry alone
ShouldRemoveExpiredOnly(c) == expired(c)

\* remove, line 181: the record is removed when exhausted or expired
ShouldRemove(c) == ~(c.Downloads # Exhausted /\ ~expired(c))

\* remove, lines 179-194: constraints.Lock(), the test, os.Remove, the
\* dirty flag, delete, and the two deferred unlocks
RemoveCheck(t) ==
  /\ Cleared
  /\ pc[t] = "remove_check"
  /\ LET n == RemoveName(t)
         r == files[n]
     IN /\ CanLock(recLock[r])
        /\ storeLock' = Unlock(storeLock)
        /\ IF ShouldRemove(recs[r])
           THEN /\ disk' = [disk EXCEPT ![n] =
                              IF recs[r].Delete THEN NoFile ELSE @]
                /\ dirty' = IF recs[r].Public THEN TRUE ELSE dirty
                /\ files' = [files EXCEPT ![n] = NoRec]
                /\ loc' = [q \in Threads |->
                             IF q = t THEN NoLocals ELSE Drop(loc[q], n)]
                /\ EndRemove(t, r, "removed")
           ELSE /\ EndRemove(t, r, "skipped")
                /\ loc' = [loc EXCEPT ![t] = NoLocals]
                /\ UNCHANGED <<disk, dirty, files>>
  /\ UNCHANGED <<recs, recLock, nextRec, listLock, slice, now, ops, lastRec>>

(* ------------------------------- List --------------------------------- *)
\* List, lines 206-207 and 227-233: d.list.RLock(), the loop test; when the
\* list is clean the copy of the slice and the RUnlock(), else RUnlock()
ListRLock(p) ==
  /\ Cleared
  /\ \/ Begin(p)
     \/ pc[p] = "list_rlock" /\ UNCHANGED ops
  /\ CanRLock(listLock)
  /\ LET st == IF pc[p] = "idle" THEN PublicNames(files, recs)
               ELSE loc[p].stable
     IN IF dirty
        THEN /\ pc' = [pc EXCEPT ![p] = "list_lock"]
             /\ loc' = [loc EXCEPT ![p].stable = st]
             /\ UNCHANGED last
        ELSE /\ pc' = [pc EXCEPT ![p] = "idle"]
             /\ loc' = [loc EXCEPT ![p] = NoLocals]
             /\ last' = [NoCall EXCEPT !.op = "List", !.res = "OK",
                                       !.list = slice, !.stable = st]
  /\ UNCHANGED <<files, recs, recLock, nextRec, disk, storeLock, listLock,
                 dirty, slice, now, lastRec, calls>>

\* List that rebuilds without testing dirty again under the write lock
ListLockNoRecheck(p) ==
  /\ Cleared
  /\ pc[p] = "list_lock"
  /\ CanLock(listLock)
  /\ listLock' = Lock(listLock, p)
  /\ pc' = [pc EXCEPT ![p] = "list_rebuild"]
  /\ UNCHANGED <<files, recs, recLock, nextRec, disk, storeLock, dirty, slice,
                 now, loc, ops, last, lastRec, calls>>

\* List, lines 209-210 and 226: d.list.Lock() and the second test of dirty;
\* when another call has rebuilt the list, Unlock()
ListLock(p) ==
  /\ Cleared
  /\ pc[p] = "list_lock"
  /\ CanLock(listLock)
  /\ IF dirty
     THEN /\ listLock' = Lock(listLock, p)
          /\ pc' = [pc EXCEPT ![p] = "list_rebuild"]
     ELSE /\ pc' = [pc EXCEPT ![p] = "list_rlock"]
          /\ UNCHANGED listLock
  /\ UNCHANGED <<files, recs, recLock, nextRec, disk, storeLock, dirty, slice,
                 now, loc, ops, last, lastRec, calls>>

\* List, lines 211-222: d.RLock(), the slice is emptied, the public names
\* are appended in the map's iteration order and sorted
ListRebuild(p) ==
  /\ Cleared
  /\ pc[p] = "list_rebuild"
  /\ CanRLock(storeLock)
  /\ storeLock' = RLock(storeLock)
  /\ slice' = SortStrings(PublicNames(files, recs))
  /\ pc' = [pc EXCEPT ![p] = "list_clear"]
  /\ UNCHANGED <<files, recs, recLock, nextRec, disk, listLock, dirty, now,
                 loc, ops, last, lastRec, calls>>

\* List, lines 223-226: dirty = false, d.RUnlock(), d.list.Unlock()
ListClear(p) ==
  /\ Cleared
  /\ pc[p] = "list_clear"
  /\ dirty' = FALSE
  /\ storeLock' = RUnlock(storeLock)
  /\ listLock' = Unlock(listLock)
  /\ pc' = [pc EXCEPT ![p] = "list_rlock"]
  /\ UNCHANGED <<files, recs, recLock, nextRec, disk, slice, now, loc, ops,
                 last, lastRec, calls>>

(* ------------------------------ clock --------------------------------- *)
Tick ==
  /\ Cleared
  /\ now < MaxTime
  /\ now' = now + 1
  /\ UNCHANGED <<files, recs, recLock, nextRec, disk, storeLock, listLock,
                 dirty, slice, pc, loc, ops, last, lastRec, calls>>

(* --------------------------- specification ---------------------------- *)
Next ==
  \/ \E p \in Procs, n \in BadNames : AddInvalid(p, n)
  \/ \E p \in Procs, n \in ValidNames, ioerr \in BOOLEAN : AddOpen(p, n, ioerr)
  \/ \E p \in Procs, c \in ConstraintChoices, ioerr \in BOOLEAN :
        AddCopy(p, c, ioerr)
  \/ \E p \in Procs, n \in ValidNames : Remove(p, n)
  \/ \E p \in Procs, n \in BadNames : ServeInvalid(p, n)
  \/ \E p \in Procs, n \in ValidNames : ServeLookup(p, n)
  \/ \E p \in Procs : ServeRLock(p)
  \/ \E p \in Procs : ServeLock(p)
  \/ \E p \in Procs : ServeFile(p)
  \/ \E t \in Threads : RemoveLock(t)
  \/ \E t \in Threads : RemoveCheck(t)
  \/ \E p \in Procs : ListRLock(p)
  \/ \E p \in Procs : ListLock(p)
  \/ \E p \in Procs : ListRebuild(p)
  \/ \E p \in Procs : ListClear(p)
  \/ Tick
  \/ Forget

Spec == Init /\ [][Next]_vars

(* Requests one at a time: a call begins only when no other request is    *)
(* in a call; the expiration callbacks stay asynchronous.                 *)
OneAtATime ==
  \A p \in Procs, q \in Procs : pc[p] # "idle" /\ pc[q] # "idle" => p = q

NextSeq == Next /\ OneAtATime'

SpecSeq == Init /\ [][NextSeq]_vars

(* Fair scheduling: a goroutine that is in a call, or a callback whose    *)
(* time has come, takes its next step if that step is possible again and  *)
(* again (the runtime schedules every runnable goroutine, and a           *)
(* sync.RWMutex hands the lock on to a waiting goroutine).  No call is    *)
(* required to begin and the clock is not required to advance.            *)
Continue(t) ==
  \/ \E c \in ConstraintChoices, ioerr \in BOOLEAN : AddCopy(t, c, ioerr)
  \/ ServeRLock(t)
  \/ ServeLock(t)
  \/ ServeFile(t)
  \/ RemoveLock(t)
  \/ RemoveCheck(t)
  \/ (pc[t] = "list_rlock" /\ ListRLock(t))
  \/ ListLock(t)
  \/ ListRebuild(t)
  \/ ListClear(t)

(* The fair behaviours that are checked are those with a single Add and   *)
(* fewer than MaxOps calls: a fair behaviour of these is a fair behaviour *)
(* of the store.  No step of Continue leaves them.                        *)
OneAdd ==
  /\ nextRec + Cardinality({p \in Procs : pc[p] = "add_copy"}) <= 2
  /\ ops < MaxOps

NextOneAdd == Next /\ OneAdd'

FairSpec ==
  /\ Init /\ [][NextOneAdd]_vars
  /\ \A t \in Threads : SF_vars(Continue(t))
  /\ WF_vars(Forget)

(* ================================ claims =============================== *)

(* C1: for an unexpired record added with downloads = k >= 1, no more     *)
(* than k Serve calls transfer its file, in every interleaving.           *)
C1_AtMostLimitServes ==
  \A r \in RecIds :
    recs[r].limit >= 1 /\ ~expired(recs[r]) => recs[r].served <= recs[r].limit

(* C2: a Serve that reads, under the record's read lock, a record that is *)
(* still in the map, not expired and already Exhausted returns            *)
(* LimitExceeded and transfers nothing.                                   *)
C2_ExhaustedIsRefused ==
  [][\A p \in Procs :
       (/\ pc[p] = "serve_rlock"
        /\ pc'[p] # "serve_rlock"
        /\ files[loc[p].name] = loc[p].rec
        /\ ~expired(recs[loc[p].rec])
        /\ recs[loc[p].rec].Downloads = Exhausted)
       => (pc'[p] = "idle" /\ last'.op = "Serve"
           /\ last'.res = "LimitExceeded")]_vars

(* The Serve that just returned is the k-th Serve of its name since the   *)
(* Add that registered record r with downloads = 1 and no expiration,     *)
(* with no other operation on the name in between.                        *)
KthServeOfSingle(k, r) ==
  /\ last.op = "Serve"
  /\ last.name \in ValidNames
  /\ r # NoRec
  /\ lastRec[last.name] = r
  /\ last.start = r
  /\ recs[r].limit = 1
  /\ recs[r].Expire = ZeroTime
  /\ calls[last.name] = k

(* C3 as stated: called one after the other, after Add(c, n, {downloads:  *)
(* 1}) the first Serve(n) returns c, the second fails with LimitExceeded, *)
(* the third fails with NotFound, the entry being absent.                 *)
C3_SecondIsLimitExceeded ==
  \A r \in RecIds :
    /\ KthServeOfSingle(1, r) => last.res = "OK" /\ last.got = r
    /\ KthServeOfSingle(2, r) => last.res = "LimitExceeded"
    /\ KthServeOfSingle(3, r) =>
         last.res = "NotFound" /\ files[last.name] = NoRec

(* C3 amended: called one after the other, after Add(c, n, {downloads:    *)
(* 1}) the first Serve(n) returns c and the entry is absent when it       *)
(* returns; the second and the third Serve(n) fail with NotFound.         *)
C3_SecondIsNotFound ==
  \A r \in RecIds :
    /\ KthServeOfSingle(1, r) =>
         last.res = "OK" /\ last.got = r /\ files[last.name] = NoRec
    /\ KthServeOfSingle(2, r) =>
         last.res = "NotFound" /\ files[last.name] = NoRec
    /\ KthServeOfSingle(3, r) =>
         last.res = "NotFound" /\ files[last.name] = NoRec

C3_Witness ==
  \E r \in RecIds : KthServeOfSingle(2, r) /\ last.res = "NotFound"

(* The Serve that just returned began after the Add of a record whose     *)
(* Expire was already over at that Add, the name not overwritten since.   *)
ServedPastRecord ==
  /\ last.op = "Serve"
  /\ last.start # NoRec
  /\ recs[last.start].past
  /\ lastRec[last.name] = last.start

(* C4 as stated: after Add(c, n, {expire: t}) with t in the past, a       *)
(* following Serve(n) fails with Expired, whether or not the callback     *)
(* has run (no Remove and no failed Add of n in between).                 *)
C4_PastIsExpired ==
  ServedPastRecord /\ calls[last.name] < MaxOps => last.res = "Expired"

(* C4 amended: after Add(c, n, {expire: t}) with t in the past, a         *)
(* following Serve(n) never succeeds: it fails with Expired when the      *)
(* record is still in the map at its lookup, and with NotFound when the   *)
(* expiration callback (or another removal) has removed it before.        *)
C4_PastIsExpiredOrGone ==
  ServedPastRecord =>
    /\ last.got = NoFile
    /\ IF last.rec = NoRec THEN last.res = "NotFound"
       ELSE last.rec = last.start /\ last.res = "Expired"

C4_Witness ==
  /\ ServedPastRecord
  /\ last.res = "NotFound"
  /\ pc[TimerOf(last.start)] = "fired"

(* C5: no Serve decrements the counter and transfers the file once the    *)
(* expiry instant has passed, also when it passes between the read-locked *)
(* check and the write-locked decrement.                                  *)
C5_NoCountAfterExpiry ==
  [][\A p \in Procs :
       (pc[p] = "serve_lock" /\ pc'[p] = "serve_file_w")
       => ~expired(recs[loc[p].rec])]_vars

(* C6: whenever the dirty flag is false and no rebuild is in progress,    *)
(* the cached sequence is the sorted set of the names whose record in the *)
(* map is public.                                                         *)
C6_CleanCacheIsCurrent ==
  (~dirty /\ \A p \in Procs : pc[p] # "list_clear")
  => slice = SortStrings(PublicNames(files, recs))

(* C7: a List call returns a sorted sequence without duplicates that      *)
(* contains exactly once every name that was added as public before the   *)
(* call began and was neither removed nor overwritten during it.          *)
C7_ListHasStablePublicNames ==
  last.op = "List" =>
    /\ \A i \in 1..(Len(last.list) - 1) :
         LexLess(last.list[i], last.list[i + 1])
    /\ \A n \in last.stable :
         Cardinality({i \in 1..Len(last.list) : last.list[i] = n}) = 1

C7_Witness ==
  /\ last.op = "List"
  /\ Cardinality(last.stable) = 2
  /\ Len(last.list) = 2

(* C8: under fair scheduling every List call that has begun returns.      *)
C8_ListReturns ==
  \A p \in Procs :
    (pc[p] \in {"list_rlock", "list_lock", "list_rebuild", "list_clear"})
      ~> (pc[p] = "idle")

(* C9: under fair scheduling a record with a non-zero expiration is, once *)
(* its expiry instant has passed, eventually not the record mapped to its *)
(* name any more.                                                         *)
C9_ExpiredIsRemoved ==
  \A n \in ValidNames, r \in RecIds :
    (files[n] = r /\ recs[r].Expire # ZeroTime /\ recs[r].Expire < now)
      ~> (files[n] # r)

(* C10: the conditional removal deletes the record mapped to the name     *)
(* only if that record is Exhausted or expired, and then it does; else    *)
(* the map, the records, the disk and the dirty flag are unchanged.       *)
C10_RemovesOnlyExhaustedOrExpired ==
  [][\A t \in Threads :
       (pc[t] = "remove_check" /\ pc'[t] # "remove_check")
       => LET n == RemoveName(t)
              r == files[n]
          IN IF recs[r].Downloads = Exhausted
                \/ (recs[r].Expire # ZeroTime /\ recs[r].Expire < now)
             THEN files' = [files EXCEPT ![n] = NoRec]
             ELSE /\ files' = files
                  /\ recs' = recs
                  /\ disk' = disk
                  /\ dirty' = dirty]_vars

(* the callback armed by an earlier Add of the name found the record of a *)
(* later Add, neither expired nor exhausted, and left it in the map       *)
C10_Witness ==
  /\ last.op = "remove"
  /\ last.removed = "skipped"
  /\ last.rec # last.start
  /\ files[last.name] = last.rec

(* Record r, the last one added under name n, was added public, with      *)
(* delete and downloads = 1; its file has been transferred, every request *)
(* has returned, and no Remove or failed Add of n came after that Add.    *)
ServedSingle(n, r) ==
  /\ lastRec[n] = r
  /\ recs[r].limit = 1
  /\ recs[r].Public
  /\ recs[r].Delete
  /\ recs[r].served >= 1
  /\ calls[n] < MaxOps
  /\ \A p \in Procs : pc[p] = "idle"

C12_FailedAddChangesNothing ==
  [][((\E p \in Procs : pc'[p] = "add_copy")
      \/ (last'.op = "Add" /\ last'.res # "OK"))
     => /\ files' = files
        /\ nextRec' = nextRec
        /\ dirty' = dirty
        /\ \A t \in Timers : pc'[t] = pc[t]]_vars

\* the copy failed while a registered name was being overwritten
C12_Witness ==
  /\ last.op = "Add"
  /\ last.res = "IOFailure"
  /\ last.name \in ValidNames
  /\ files[last.name] # NoRec
  /\ disk[last.name] = Partial
  /\ ~dirty

(* C13: Add of a name that is not in the map while a file of that name   *)
(* exists on disk fails and leaves that file and the map unchanged; Add   *)
(* of a name that is in the map fails only on an I/O failure, and when it *)
(* succeeds the map holds the new record and the disk the new content.    *)
C13_ExclusiveCreateOrOverwrite ==
  [][\A n \in ValidNames :
       /\ (/\ files[n] = NoRec
           /\ disk[n] # NoFile
           /\ \A p \in Procs : pc[p] # "add_copy")
          => /\ \A p \in Procs :
                  ~(pc'[p] = "add_copy" /\ loc'[p].name = n)
             /\ (last'.op = "Add" /\ last'.name = n)
                => /\ last'.res \in {"Exists", "IOFailure"}
                   /\ disk' = disk
                   /\ files' = files
       /\ (files[n] # NoRec /\ last'.op = "Add" /\ last'.name = n)
          => /\ last'.res \in {"OK", "IOFailure"}
             /\ last'.res = "OK"
                => /\ files'[n] = last'.rec
                   /\ files'[n] # files[n]
                   /\ disk'[n] = last'.rec
                   /\ recs'[last'.rec].served = 0]_vars

\* an Add of a name whose file was left behind by a removed record failed
C13_Witness ==
  /\ last.op = "Add"
  /\ last.res = "Exists"
  /\ files[last.name] = NoRec
  /\ disk[last.name] = 1

(* C14: Remove(n) reports no error; when n is in the map it deletes the   *)
(* entry whatever its expiration and download state and sets the dirty    *)
(* flag exactly when the entry was public; when n is not in the map the   *)
(* map and the dirty flag are unchanged; in both cases the cached list    *)
(* and every record are unchanged.                                        *)
C14_RemoveIsUnconditional ==
  [][last'.op = "Remove"
     => LET n == last'.name
        IN /\ last'.res = "OK"
           /\ files' = [files EXCEPT ![n] = NoRec]
           /\ dirty' = IF files[n] # NoRec /\ recs[files[n]].Public
                       THEN TRUE ELSE dirty
           /\ files[n] = NoRec => files' = files /\ dirty' = dirty
           /\ recs' = recs
           /\ slice' = slice]_vars

\* a public record, listed, neither expired nor exhausted, was removed
C14_Witness ==
  /\ last.op = "Remove"
  /\ last.rec # NoRec
  /\ recs[last.rec].Public
  /\ recs[last.rec].Downloads > 0
  /\ ~expired(recs[last.rec])
  /\ files[last.name] = NoRec
  /\ \E i \in 1..Len(slice) : slice[i] = last.name
  /\ dirty

(* C15: the Downloads of a registered record changes only from n > 1 to  *)
(* n - 1 and from 1 to Exhausted; each change is made by one Serve, which *)
(* then transfers the file and returns without error.  Unlimited and      *)
(* Exhausted never change; the counter never grows and never becomes 0.   *)
C15_DownloadsMonotonic ==
  [][/\ \A r \in RecIds :
          (r < nextRec /\ recs'[r].Downloads # recs[r].Downloads)
          => /\ recs[r].Downloads >= 1
             /\ recs'[r].Downloads =
                  IF recs[r].Downloads = 1 THEN Exhausted
                  ELSE recs[r].Downloads - 1
             /\ recs'[r].Downloads # Unlimited
             /\ Cardinality({p \in Procs :
                               /\ pc[p] = "serve_lock"
                               /\ pc'[p] = "serve_file_w"
                               /\ loc[p].rec = r}) = 1
     /\ \A p \in Procs :
          (pc[p] = "serve_lock" /\ pc'[p] = "serve_file_w")
          => recs'[loc[p].rec].Downloads # recs[loc[p].rec].Downloads
     /\ \A p \in Procs :
          (pc[p] = "serve_file_w" /\ pc'[p] # "serve_file_w")
          => /\ recs'[loc[p].rec].served = recs[loc[p].rec].served + 1
             /\ \/ pc'[p] = "remove_lock"
                \/ last'.op = "Serve" /\ last'.res = "OK"]_vars

\* a record added with downloads = 2 went through 1 to Exhausted
C15_Witness ==
  \E r \in RecIds :
    /\ recs[r].limit = 2
    /\ recs[r].Downloads = Exhausted
    /\ recs[r].served = 2

\* the fields of the code's Constraints, without the history fields
Fields(c) ==
  [Expire |-> c.Expire, Downloads |-> c.Downloads, Public |-> c.Public,
   Delete |-> c.Delete]

\* record r was added with unlimited downloads and no expiration
UnlimitedForever(r) ==
  r # NoRec /\ recs[r].limit = Unlimited /\ recs[r].Expire = ZeroTime

(* C16: for an entry added with Unlimited downloads and no expiration, a  *)
(* Serve of the name that ran with no Add or Remove of the name since     *)
(* that Add returns without error the content written by that Add, and no *)
(* step of a Serve of such a record changes the record, the map, the      *)
(* dirty flag or the cached list.                                         *)
C16_UnlimitedServeChangesNothing ==
  /\ [](\A r \in RecIds :
          (/\ last.op = "Serve"
           /\ last.start = r
           /\ UnlimitedForever(r)
           /\ lastRec[last.name] = r
           /\ calls[last.name] < MaxOps
           /\ \A p \in Procs : pc[p] = "add_copy" => loc[p].name # last.name)
          => last.res = "OK" /\ last.got = r /\ last.rec = r)
  /\ [][\A p \in Procs :
          (/\ pc'[p] # pc[p]
           /\ \/ pc'[p] = "serve_rlock"
              \/ pc[p] \in {"serve_rlock", "serve_lock", "serve_file_r",
                            "serve_file_w"}
           /\ UnlimitedForever(IF pc[p] = "idle" THEN loc'[p].rec
                               ELSE loc[p].rec))
          => /\ pc[p] \notin {"serve_lock", "serve_file_w"}
             /\ files' = files
             /\ dirty' = dirty
             /\ slice' = slice
             /\ \A r \in RecIds : Fields(recs'[r]) = Fields(recs[r])]_vars

\* the third Serve in a row of an unlimited record returned its content
C16_Witness ==
  /\ last.op = "Serve"
  /\ UnlimitedForever(last.start)
  /\ lastRec[last.name] = last.start
  /\ calls[last.name] = 3
  /\ last.res = "OK"
  /\ last.got = last.start
  /\ recs[last.start].served = 3

(* C17: no thread waits for the lock of a record while it holds the       *)
(* store's lock: a thread that holds the store's write lock inside remove *)
(* can take the record's lock at once, so a Serve in its transfer never   *)
(* makes operations on other names wait.                                  *)
C17_NoWaitUnderStoreLock ==
  \A t \in Threads :
    (pc[t] = "remove_check" /\ storeLock.w = t)
    => CanLock(recLock[files[RemoveName(t)]])

(* C18: the removal that a Serve invokes after it has made its record    *)
(* Exhausted finds that same record mapped to the name, in state          *)
(* Exhausted, and removes it, whatever Add, Remove or callback runs       *)
(* concurrently.                                                          *)
C18_RemovalSeesOwnRecord ==
  [][\A p \in Procs :
       /\ (pc[p] = "remove_lock" /\ pc'[p] # "remove_lock")
          => /\ files[loc[p].name] = loc[p].rec
             /\ recs[loc[p].rec].Downloads = Exhausted
             /\ pc'[p] = "remove_check"
       /\ (pc[p] = "remove_check" /\ pc'[p] # "remove_check")
          => /\ files[loc[p].name] = loc[p].rec
             /\ files'[loc[p].name] = NoRec
             /\ last'.removed = "removed"]_vars

(* C19: the dirty flag becomes true only in a step of a thread that      *)
(* holds the store's write lock (no reader holds the store's lock then),  *)
(* and becomes false only in a step of the thread that holds the cache's  *)
(* write lock while it still holds the store's read lock, which it        *)
(* releases in that step or later; so the sequence a rebuild leaves when  *)
(* it clears the flag is the sorted public names of the map as it is at   *)
(* that moment: no mutation has come in after the snapshot.               *)
C19_DirtyProtocol ==
  [][/\ (~dirty /\ dirty')
        => /\ storeLock.r = 0
           /\ \A p \in Procs : pc[p] # "list_clear"
           /\ \/ \E t \in Threads :
                   storeLock.w = t /\ pc[t] \in {"add_copy", "remove_check"}
              \/ storeLock.w = 0 /\ last'.op = "Remove"
     /\ (dirty /\ ~dirty')
        => /\ \E p \in Procs :
                pc[p] = "list_clear" /\ pc'[p] # "list_clear"
                /\ listLock.w = p
           /\ storeLock.r >= 1
           /\ storeLock.w = 0
           /\ storeLock'.r = storeLock.r - 1
           /\ slice = SortStrings(PublicNames(files, recs))
           /\ slice' = slice]_vars

\* a rebuild has cleared the flag after a public name was added
C19_Witness ==
  /\ ~dirty
  /\ slice # << >>
  /\ listLock = Unlocked
  /\ storeLock = Unlocked
  /\ \E p \in Procs : pc[p] = "list_rlock"

\* the List calls that are inside the rebuild
Rebuilders == {p \in Procs : pc[p] \in {"list_rebuild", "list_clear"}}

(* C20: at most one List call is inside the rebuild, it holds the cache's *)
(* write lock and the flag is set; a List call that has seen the flag set *)
(* and, once it has the cache's write lock, finds it cleared, rebuilds    *)
(* nothing and goes on to return the sequence left by the other call.     *)
C20_OneRebuilder ==
  /\ [](/\ Cardinality(Rebuilders) <= 1
        /\ \A p \in Rebuilders : listLock.w = p /\ dirty)
  /\ [][\A p \in Procs :
          /\ (pc[p] = "list_lock" /\ pc'[p] # "list_lock")
             => IF dirty
                THEN pc'[p] = "list_rebuild" /\ listLock'.w = p
                ELSE /\ pc'[p] = "list_rlock"
                     /\ listLock' = listLock
                     /\ slice' = slice
                     /\ dirty' = dirty
          /\ (pc[p] = "list_rlock" /\ pc'[p] = "idle")
             => ~dirty /\ last'.op = "List" /\ last'.list = slice]_vars

\* two List calls saw the flag set by the one Add; both are past the
\* cache's write lock and the flag is cleared: one of them rebuilt
C20_Witness ==
  /\ \A p \in Procs : pc[p] = "list_rlock"
  /\ ~dirty
  /\ ops = 4
  /\ nextRec = 2
  /\ slice # << >>

====
